---- MODULE Spec2Model ----
(***************************************************************************)
(* Model of the Select AI -> Vision SQL pipeline (pipeline_selectai.py).   *)
(*                                                                         *)
(* A SQL text is a sequence of lexical atoms.  An atom is either a word    *)
(* (a run of [A-Za-z0-9_] characters, e.g. "FROM", "AP_HOLDS_ALL") or one  *)
(* of the non-word atoms listed in NonWord.  Adjacent word atoms form one  *)
(* longer word (<<"drop","APPS">> is the text dropAPPS), so a regular      *)
(* expression's \b is "the neighbouring atom is not a word atom".  The     *)
(* regular expressions of clean_sql are written out as scans over atoms.   *)
(***************************************************************************)
EXTENDS Naturals, Sequences, FiniteSets

\* ------------------------------------------------------------------ atoms
SP == " "
NL == "\n"
DOT == "."
QUOTE == "\""
SEMI == ";"
\* the code-fence marker: three backquotes
FENCE == "<fence>"
\* the repr of each HOLD_CODES entry, comma-joined: one string-literal list
CODES == "'QTY ORD', 'QTY REC', 'PRICE', 'AMT ORG'"

NonWord == {SP, NL, DOT, QUOTE, SEMI, FENCE, ",", "*", "=", "(", ")", CODES}

IsWord(a) == a \notin NonWord
\* \s
IsSpace(a) == a \in {SP, NL}
\* the character class of an identifier: word characters, quote, dot
IsIdent(a) == IsWord(a) \/ a \in {QUOTE, DOT}

\* the upper-case form of the atoms that occur in lower or mixed case
UpperCase ==
  [ drop |-> "DROP", Update |-> "UPDATE", table |-> "TABLE", from |-> "FROM",
    join |-> "JOIN", where |-> "WHERE", order |-> "ORDER", by |-> "BY",
    fetch |-> "FETCH", first |-> "FIRST", desc |-> "DESC",
    hold_id |-> "HOLD_ID", hol_agent_05 |-> "HOL_AGENT_05",
    ap_holds_all |-> "AP_HOLDS_ALL", apps |-> "APPS" ]

\* str.upper() / re.IGNORECASE on one atom
ToUpper(a) == IF a \in DOMAIN UpperCase THEN UpperCase[a] ELSE a

\* ------------------------------------------------------------------ policy
NoSchema == "<None>"
META_TBL == "AP_HOLDS_ALL"
V_USER == "apps"
FORCE_RELEASE_NULL == TRUE
HOLD_CODES == <<"QTY ORD", "QTY REC", "PRICE", "AMT ORG">>
SourceSchema == "HOL_AGENT_05"
ForbiddenKeywords ==
  {"INSERT", "UPDATE", "DELETE", "MERGE", "CREATE", "ALTER", "DROP", "GRANT",
   "REVOKE", "TRUNCATE"}
DefaultOrder == <<"ORDER", SP, "BY", SP, QUOTE, "HOLD_DATE", QUOTE, SP, "ASC">>
DefaultFetch == <<"FETCH", SP, "FIRST", SP, "100", SP, "ROWS", SP, "ONLY">>

\* ------------------------------------------------------------------ str helpers
RECURSIVE LStrip(_)
LStrip(s) == IF s # <<>> /\ IsSpace(Head(s)) THEN LStrip(Tail(s)) ELSE s

RECURSIVE RStrip(_)
RStrip(s) ==
  IF s # <<>> /\ IsSpace(s[Len(s)]) THEN RStrip(SubSeq(s, 1, Len(s) - 1)) ELSE s

\* str.strip()
Strip(s) == LStrip(RStrip(s))

\* str.rstrip(";")
RECURSIVE RStripSemi(_)
RStripSemi(s) ==
  IF s # <<>> /\ s[Len(s)] = SEMI THEN RStripSemi(SubSeq(s, 1, Len(s) - 1)) ELSE s

\* index of the first atom of s at or after i that satisfies no IsSpace; Len(s)+1 if none
RECURSIVE SkipSpace(_, _)
SkipSpace(s, i) ==
  IF i <= Len(s) /\ IsSpace(s[i]) THEN SkipSpace(s, i + 1) ELSE i

\* index of the first atom of s at or after i that is no identifier character;
\* Len(s)+1 if none
RECURSIVE SkipIdent(_, _)
SkipIdent(s, i) ==
  IF i <= Len(s) /\ IsIdent(s[i]) THEN SkipIdent(s, i + 1) ELSE i

\* index of the first atom of s at or after i that is in the set stop; Len(s)+1 if none
RECURSIVE FindStop(_, _, _)
FindStop(s, i, stop) ==
  IF i <= Len(s) /\ s[i] \notin stop THEN FindStop(s, i + 1, stop) ELSE i

\* \b before / after the word atom at i
BoundaryBefore(s, i) == i = 1 \/ ~IsWord(s[i - 1])
BoundaryAfter(s, i) == i = Len(s) \/ ~IsWord(s[i + 1])

\* " ".join(p for p in parts if p)
RECURSIVE JoinSp(_)
JoinSp(parts) ==
  IF parts = <<>> THEN <<>>
  ELSE LET rest == JoinSp(Tail(parts)) IN
       IF Head(parts) = <<>> THEN rest
       ELSE IF rest = <<>> THEN Head(parts)
       ELSE Head(parts) \o <<SP>> \o rest

\* ------------------------------------------------------------------ clean_sql
\* the re.sub of line 120 (re.DOTALL): a leading fence up to and including the
\* first newline, and a trailing newline + fence, are removed
StripFence(s) ==
  LET n == Len(s)
      nl == FindStop(s, 1, {NL})
      lead == IF n > 0 /\ s[1] = FENCE /\ nl <= n THEN nl ELSE 0
      trail == IF n >= 2 /\ s[n - 1] = NL /\ s[n] = FENCE /\ n - 1 > lead THEN 2 ELSE 0
  IN SubSeq(s, lead + 1, n - trail)

\* the match without re.IGNORECASE: only the upper-case qualifier is found
QualifierLen_CaseSensitive(s) ==
  LET q1 == IF s # <<>> /\ s[1] = QUOTE THEN 1 ELSE 0
      h == q1 + 1
      q2 == IF h + 1 <= Len(s) /\ s[h + 1] = QUOTE THEN 1 ELSE 0
      d == h + q2 + 1
  IN IF h <= Len(s) /\ s[h] = SourceSchema /\ d <= Len(s) /\ s[d] = DOT
     THEN d ELSE 0

\* length of a match of "?HOL_AGENT_05"?\. (re.IGNORECASE) at the head of s, 0 if none
QualifierLen(s) ==
  LET q1 == IF s # <<>> /\ s[1] = QUOTE THEN 1 ELSE 0
      h == q1 + 1
      q2 == IF h + 1 <= Len(s) /\ s[h + 1] = QUOTE THEN 1 ELSE 0
      d == h + q2 + 1
  IN IF h <= Len(s) /\ ToUpper(s[h]) = SourceSchema /\ d <= Len(s) /\ s[d] = DOT
     THEN d ELSE 0

\* re.sub(r'"?HOL_AGENT_05"?\.', f'{V_SCHEMA}.', s, flags=re.IGNORECASE)
RECURSIVE RewriteSchema(_, _)
RewriteSchema(s, v) ==
  IF s = <<>> THEN <<>>
  ELSE LET m == QualifierLen(s) IN
       IF m > 0 THEN <<v, DOT>> \o RewriteSchema(SubSeq(s, m + 1, Len(s)), v)
       ELSE <<Head(s)>> \o RewriteSchema(Tail(s), v)

\* the statement the checks run on: lines 117-125
Prepared(sql, schema) ==
  LET s == RStripSemi(StripFence(Strip(sql)))
  IN IF schema # NoSchema THEN RewriteSchema(s, schema) ELSE s

\* the scan without re.I: only upper-case keywords are found
HasForbidden_CaseSensitive(s) ==
  \E i \in 1..Len(s) :
    /\ s[i] \in ForbiddenKeywords
    /\ BoundaryBefore(s, i)
    /\ BoundaryAfter(s, i)

\* re.search(r"\b(insert|...|truncate)\b", s, re.I)
HasForbidden(s) ==
  \E i \in 1..Len(s) :
    /\ ToUpper(s[i]) \in ForbiddenKeywords
    /\ BoundaryBefore(s, i)
    /\ BoundaryAfter(s, i)

\* re.findall(r"\b(from|join)\s+([A-Za-z0-9_\"\.]+)", s, re.I) from index i on:
\* the sequence of the second groups
RECURSIVE FromTargets(_, _)
FromTargets(s, i) ==
  IF i > Len(s) THEN <<>>
  ELSE LET j == SkipSpace(s, i + 1)
           k == SkipIdent(s, j)
       IN IF /\ ToUpper(s[i]) \in {"FROM", "JOIN"}
             /\ BoundaryBefore(s, i)
             /\ j > i + 1
             /\ k > j
          THEN <<SubSeq(s, j, k - 1)>> \o FromTargets(s, k)
          ELSE FromTargets(s, i + 1)

\* str.strip('"')
RECURSIVE StripQuotes(_)
StripQuotes(p) ==
  IF p # <<>> /\ Head(p) = QUOTE THEN StripQuotes(Tail(p))
  ELSE IF p # <<>> /\ p[Len(p)] = QUOTE THEN StripQuotes(SubSeq(p, 1, Len(p) - 1))
  ELSE p

\* index of the last DOT of obj, 0 if none
RECURSIVE LastDot(_, _)
LastDot(obj, i) == IF i = 0 \/ obj[i] = DOT THEN i ELSE LastDot(obj, i - 1)

\* the table name compared without .upper()
TableName_NoUpper(obj) ==
  StripQuotes(SubSeq(obj, LastDot(obj, Len(obj)) + 1, Len(obj)))

\* [p.strip('"') for p in obj.split(".")][-1].upper()
TableName(obj) ==
  LET seg == StripQuotes(SubSeq(obj, LastDot(obj, Len(obj)) + 1, Len(obj)))
  IN [i \in 1..Len(seg) |-> ToUpper(seg[i])]

\* the first FROM/JOIN target that is not the allowed table, <<>> if none
RECURSIVE FirstBadTable(_)
FirstBadTable(objs) ==
  IF objs = <<>> THEN <<>>
  ELSE IF TableName(Head(objs)) # <<ToUpper(META_TBL)>> THEN Head(objs)
  ELSE FirstBadTable(Tail(objs))

\* start of the leftmost match at or after i of \b<kw1>\s+<kw2>\b (re.I), 0 if none
RECURSIVE TwoWordStart(_, _, _, _)
TwoWordStart(s, i, kw1, kw2) ==
  IF i > Len(s) THEN 0
  ELSE LET j == SkipSpace(s, i + 1) IN
       IF /\ ToUpper(s[i]) = kw1
          /\ BoundaryBefore(s, i)
          /\ j > i + 1
          /\ j <= Len(s)
          /\ ToUpper(s[j]) = kw2
          /\ BoundaryAfter(s, j)
       THEN i
       ELSE TwoWordStart(s, i + 1, kw1, kw2)

\* lines 139-147: [body |-> s, order |-> order_part, fetch |-> fetch_part]
SplitClauses(s0) ==
  LET f == TwoWordStart(s0, 1, "FETCH", "FIRST")
      \* .* stops before a newline
      fend == FindStop(s0, SkipSpace(s0, f + 1) + 1, {NL}) - 1
      fetch_part == IF f > 0 THEN Strip(SubSeq(s0, f, fend)) ELSE <<>>
      s1 == IF f > 0 THEN Strip(SubSeq(s0, 1, f - 1)) ELSE s0
      o == TwoWordStart(s1, 1, "ORDER", "BY")
      \* [^\n;]* stops before a newline or a semicolon
      oend == FindStop(s1, SkipSpace(s1, o + 1) + 1, {NL, SEMI}) - 1
      order_part == IF o > 0 THEN Strip(SubSeq(s1, o, oend)) ELSE <<>>
      s2 == IF o > 0 THEN Strip(SubSeq(s1, 1, o - 1)) ELSE s1
  IN [body |-> s2, order |-> order_part, fetch |-> fetch_part]

\* re.search(r"ORDER\s+BY\s+[A-Za-z0-9_\".]", order_part): case-sensitive
HasOrderColumn(p) ==
  \E i \in 1..Len(p) :
    LET j == SkipSpace(p, i + 1)
        k == SkipSpace(p, j + 1)
    IN /\ p[i] = "ORDER"
       /\ j > i + 1 /\ j <= Len(p) /\ p[j] = "BY"
       /\ k > j + 1 /\ k <= Len(p) /\ IsIdent(p[k])

\* the order clause kept whatever it holds
FixOrder_Keep(order_part) == order_part

\* lines 149-151
FixOrder(order_part) ==
  IF order_part # <<>> /\ ~HasOrderColumn(order_part) THEN DefaultOrder ELSE order_part

\* lines 154-159: the list named fixed
Pred1 == <<"RELEASE_LOOKUP_CODE", SP, "IS", SP, "NULL">>
Pred2 == <<"HOLD_LOOKUP_CODE", SP, "IN", SP, "(", CODES, ")">>
\* the list without the RELEASE_LOOKUP_CODE predicate
Fixed_NoRelease == IF HOLD_CODES # <<>> THEN <<Pred2>> ELSE <<>>

Fixed ==
  (IF FORCE_RELEASE_NULL THEN <<Pred1>> ELSE <<>>)
    \o (IF HOLD_CODES # <<>> THEN <<Pred2>> ELSE <<>>)

\* " AND ".join(fixed)
RECURSIVE JoinAnd(_)
JoinAnd(ps) ==
  IF ps = <<>> THEN <<>>
  ELSE IF Len(ps) = 1 THEN Head(ps)
  ELSE Head(ps) \o <<SP, "AND", SP>> \o JoinAnd(Tail(ps))

Inject == JoinAnd(Fixed)

\* index of the leftmost \bwhere\b (re.I) at or after i, 0 if none
RECURSIVE WhereIndex(_, _)
WhereIndex(s, i) ==
  IF i > Len(s) THEN 0
  ELSE IF ToUpper(s[i]) = "WHERE" /\ BoundaryBefore(s, i) /\ BoundaryAfter(s, i) THEN i
  ELSE WhereIndex(s, i + 1)

\* the else branch of line 163 left out: a body without WHERE stays as it is
InjectWhere_NoAppend(s) ==
  LET w == WhereIndex(s, 1) IN
  IF w > 0
  THEN SubSeq(s, 1, w - 1) \o <<"WHERE", SP>> \o Inject \o <<SP, "AND">>
         \o SubSeq(s, w + 1, Len(s))
  ELSE s

\* the predicates put behind the model's condition instead of ahead of it
InjectWhere_Behind(s) ==
  IF WhereIndex(s, 1) > 0
  THEN s \o <<SP, "AND", SP>> \o Inject
  ELSE s \o <<SP, "WHERE", SP>> \o Inject

\* lines 160-164
InjectWhere(s) ==
  LET w == WhereIndex(s, 1) IN
  IF w > 0
  THEN SubSeq(s, 1, w - 1) \o <<"WHERE", SP>> \o Inject \o <<SP, "AND">>
         \o SubSeq(s, w + 1, Len(s))
  ELSE s \o <<SP, "WHERE", SP>> \o Inject

\* the reassembly without the default limit clause
Assemble_NoDefault(body, order_part, fetch_part) ==
  Strip(JoinSp(<<Strip(body), order_part, fetch_part>>))

\* lines 166-170
Assemble(body, order_part, fetch_part) ==
  Strip(JoinSp(<<Strip(body), order_part,
                 IF fetch_part = <<>> THEN DefaultFetch ELSE fetch_part>>))

\* The outcome of a clean_sql call: the statement returned (ok) or the
\* ValueError raised (err, with the identifier its message names in obj), and
\* the local s as the checks of lines 127-136 saw it.
Rejected(kind, obj, s) == [ok |-> FALSE, err |-> kind, obj |-> obj, sql |-> <<>>, s |-> s]
Returned(q, s) == [ok |-> TRUE, err |-> "", obj |-> <<>>, sql |-> q, s |-> s]

\* the table check of lines 131-136 run ahead of the keyword check
clean_sql_TableFirst(sql, schema) ==
  IF Strip(sql) = <<>> THEN Rejected("empty", <<>>, <<>>)
  ELSE LET s == Prepared(sql, schema)
           bad == FirstBadTable(FromTargets(s, 1))
           parts == SplitClauses(s)
       IN IF bad # <<>> THEN Rejected("table", bad, s)
          ELSE IF HasForbidden(s) THEN Rejected("forbidden", <<>>, s)
          ELSE Returned(Assemble(InjectWhere(parts.body), FixOrder(parts.order),
                                 parts.fetch), s)

\* Pipeline.clean_sql
clean_sql(sql, schema) ==
  IF Strip(sql) = <<>> THEN Rejected("empty", <<>>, <<>>)
  ELSE LET s == Prepared(sql, schema)
           bad == FirstBadTable(FromTargets(s, 1))
           parts == SplitClauses(s)
       IN IF HasForbidden(s) THEN Rejected("forbidden", <<>>, s)
          ELSE IF bad # <<>> THEN Rejected("table", bad, s)
          ELSE Returned(Assemble(InjectWhere(parts.body), FixOrder(parts.order),
                                 parts.fetch), s)

\* ------------------------------------------------------------------ the generator's text
\* What the SQL generator may emit, in pieces: a raw statement is any
\* concatenation of at most MaxPieces of them.
MaxPieces == 3

Pieces ==
  { <<"SELECT", SP, "*">>,
    <<SP, "FROM", SP, "AP_HOLDS_ALL">>,
    <<SP, "join", SP, QUOTE, "hol_agent_05", QUOTE, DOT, QUOTE, "ap_holds_all", QUOTE>>,
    <<SP, "FROM", SP, "OTHER_TABLE">>,
    <<",", SP, "OTHER_TABLE">>,
    <<SP, "FROM">>,
    <<SP, "where", SP, "HOLD_ID", "=", "1">>,
    <<SP, "ORDER", SP, "BY", SP, "HOLD_ID">>,
    <<SP, "order", SP, "by", SP, "hold_id", SP, "desc">>,
    <<SP, "ORDER", SP, "BY">>,
    <<SP, "FETCH", SP, "FIRST", SP, "10", SP, "ROWS", SP, "ONLY">>,
    <<SP, "fetch", NL, "first", SP, "10">>,
    <<"Update">>,
    <<QUOTE, "HOL_AGENT_05", QUOTE, DOT, "X">>,
    <<FENCE>>,
    <<NL>>,
    <<SEMI>> }

\* the concatenation of the pieces ps[1], ..., ps[n]
RECURSIVE Concat(_, _)
Concat(ps, n) == IF n = 0 THEN <<>> ELSE Concat(ps, n - 1) \o ps[n]

\* every text the generator may emit
RawStatements ==
  {Concat(ps, MaxPieces) : ps \in [1..MaxPieces -> Pieces \cup {<<>>}]}

\* the schemas the Vision connection may report
Schemas == {"APPS", SourceSchema}

\* What adw_selectai may return (already stripped, line 109): the empty
\* answer, valid statements, a DML statement, a statement on another table.
RunRaws ==
  { <<>>,
    <<"SELECT", SP, "*", SP, "FROM", SP, "HOL_AGENT_05", DOT, "AP_HOLDS_ALL", SP,
      "WHERE", SP, "HOLD_ID", "=", "1", SEMI>>,
    <<"drop", SP, "table", SP, "AP_HOLDS_ALL">>,
    <<"SELECT", SP, "*", SP, "FROM", SP, "OTHER_TABLE">> }

\* the requests (calls of run) of one process
NumRequests == 2
Requests == 1..NumRequests

\* the row counts a query may fetch
RowCounts == {0, 1}

\* the tool calls made to the MCP servers
NumCalls == 2
Calls == 1..NumCalls

\* the two server files and the tools each of them registers
V01 == "mcp_invoice_holds_v0.1.py"
V1 == "mcp_invoice_holds.py"
Tools == [file : {V01, V1}, name : {"list_holding_invoices", "get_hold_statistics"}]
NoTool == [file |-> "", name |-> ""]

VARIABLES
  V_SCHEMA,   \* self.V_SCHEMA, NoSchema for None
  raw,        \* the argument of the last direct clean_sql call
  phase,      \* "idle" before such a call, "done" once clean_sql has run
  result,     \* what that clean_sql call returned or raised
  pc,         \* per request: where the call of run is
  sql,        \* per request: the local sql of run / vision_execute
  cleaned,    \* per request: the outcome of clean_sql(sql)
  conn,       \* per request: the Vision connection is open
  connects,   \* per request: the number of conn_vision() calls
  rows,       \* per request: the number of rows fetched
  ret,        \* per request: what vision_execute returned
  out,        \* per request: what run returned
  executed,   \* per request: the statements vision_execute handed to the Vision cursor
  log,        \* per request: the lines it appended to vision_sql.log
  generations,\* per request: the number of adw_selectai() calls of run
  tpc,        \* per MCP tool call: where the call is
  tool,       \* per MCP tool call: the server file and the tool called
  fault,      \* per MCP tool call: what failed in it
  outcome,    \* per MCP tool call: what the tool returned or raised
  open,       \* per MCP tool call: its connection is open
  initialized,\* _oracle_client_initialized of mcp_invoice_holds_v0.1.py
  inits       \* the number of oracledb.init_oracle_client() calls made there

sanVars == <<raw, phase, result>>
runVars == <<pc, sql, cleaned, conn, connects, rows, ret, out, executed, log,
            generations>>
mcpVars == <<tpc, tool, fault, outcome, open, initialized, inits>>
vars == <<V_SCHEMA, sanVars, runVars, mcpVars>>

NoResult == [ok |-> FALSE, err |-> "none", obj |-> <<>>, sql |-> <<>>, s |-> <<>>]
NoReturn == [kind |-> "none"]

\* Pipeline.__init__: no schema detected yet, no request
Init ==
  /\ V_SCHEMA = NoSchema
  /\ raw = <<>>
  /\ phase = "idle"
  /\ result = NoResult
  /\ pc = [r \in Requests |-> "idle"]
  /\ sql = [r \in Requests |-> <<>>]
  /\ cleaned = [r \in Requests |-> NoResult]
  /\ conn = [r \in Requests |-> FALSE]
  /\ connects = [r \in Requests |-> 0]
  /\ rows = [r \in Requests |-> 0]
  /\ ret = [r \in Requests |-> NoReturn]
  /\ out = [r \in Requests |-> NoReturn]
  /\ executed = [r \in Requests |-> <<>>]
  /\ log = [r \in Requests |-> <<>>]
  /\ generations = [r \in Requests |-> 0]
  /\ tpc = [c \in Calls |-> "idle"]
  /\ tool = [c \in Calls |-> NoTool]
  /\ fault = [c \in Calls |-> "none"]
  /\ outcome = [c \in Calls |-> "none"]
  /\ open = [c \in Calls |-> FALSE]
  /\ initialized = FALSE
  /\ inits = 0

\* Pipeline.on_startup, lines 75-83: the detected schema, or V_USER.upper().
\* It runs before the requests.
OnStartup ==
  /\ phase = "idle" /\ V_SCHEMA = NoSchema
  /\ \A r \in Requests : pc[r] = "idle"
  /\ \E detected \in Schemas \cup {"<fail>"} :
       V_SCHEMA' = IF detected = "<fail>" THEN ToUpper(V_USER) ELSE detected
  /\ UNCHANGED <<mcpVars, sanVars, runVars>>

\* a call clean_sql(text) on a text of the generator
Sanitize ==
  /\ phase = "idle"
  /\ \E text \in RawStatements :
       /\ raw' = text
       /\ result' = clean_sql(text, V_SCHEMA)
  /\ phase' = "done"
  /\ UNCHANGED <<mcpVars, V_SCHEMA, runVars>>

\* the call has returned; the next one may start
NextRequest ==
  /\ phase = "done"
  /\ raw' = <<>> /\ phase' = "idle" /\ result' = NoResult
  /\ UNCHANGED <<mcpVars, V_SCHEMA, runVars>>

Next == OnStartup \/ Sanitize \/ NextRequest

\* the sanitizer called on every text the generator may emit
Spec == Init /\ [][Next]_vars

\* The generator's text with a qualifier written in every way: SELECT * FROM,
\* then at most MaxQualifier atoms of a qualifier, then the table.
MaxQualifier == 4

QualifierAtoms == {QUOTE, "HOL_AGENT_05", "hol_agent_05", DOT, "APPS"}

QualifiedStatements ==
  {<<"SELECT", SP, "*", SP, "FROM", SP>> \o Concat(q, MaxQualifier)
     \o <<"AP_HOLDS_ALL">> :
       q \in [1..MaxQualifier -> {<<a>> : a \in QualifierAtoms} \cup {<<>>}]}

\* a call clean_sql(text) on such a text
SanitizeQualified ==
  /\ phase = "idle"
  /\ \E text \in QualifiedStatements :
       /\ raw' = text
       /\ result' = clean_sql(text, V_SCHEMA)
  /\ phase' = "done"
  /\ UNCHANGED <<mcpVars, V_SCHEMA, runVars>>

NextQualified == OnStartup \/ SanitizeQualified \/ NextRequest

\* the sanitizer called on every way to write the qualifier
SpecQualified == Init /\ [][NextQualified]_vars

\* ------------------------------------------------------------------ run
\* no except clause: the exception leaves vision_execute
ErrorPayload_Raised(kind, text) == [kind |-> "raised", error |-> kind]

\* the payload of lines 195 and 199
ErrorPayload(kind, text) == [kind |-> "error", error |-> kind, sql |-> text]

\* run is called; line 204: adw_selectai returns the generator's text
Generate(r) ==
  /\ pc[r] = "idle"
  /\ generations' = [generations EXCEPT ![r] = @ + 1]
  /\ \E text \in RunRaws : sql' = [sql EXCEPT ![r] = text]
  /\ pc' = [pc EXCEPT ![r] = "generated"]
  /\ UNCHANGED <<mcpVars, V_SCHEMA, sanVars, cleaned, conn, connects, rows, ret, out,
                 executed, log>>

\* run is called; line 204 raises (the ADW connection or the SHOWSQL query fails): lines 219-220
GenerateFails(r) ==
  /\ pc[r] = "idle"
  /\ generations' = [generations EXCEPT ![r] = @ + 1]
  /\ out' = [out EXCEPT ![r] = [kind |-> "dict", status |-> "error"]]
  /\ pc' = [pc EXCEPT ![r] = "returned"]
  /\ UNCHANGED <<mcpVars, V_SCHEMA, sanVars, sql, cleaned, conn, connects, rows, ret,
                 executed, log>>

\* the ValueError of clean_sql ignored: vision_execute goes on regardless
AfterClean_Ignored(res) == "cleaned"

\* where vision_execute goes after line 177: on to the connection, or into
\* the handler of line 196
AfterClean(res) == IF res.ok THEN "cleaned" ELSE "caught"

\* clean_sql filling in a missing schema itself: self.V_SCHEMA is written
Clean_SetsSchema(r) ==
  /\ pc[r] = "generated"
  /\ V_SCHEMA' = IF V_SCHEMA = NoSchema THEN ToUpper(V_USER) ELSE V_SCHEMA
  /\ cleaned' = [cleaned EXCEPT ![r] = clean_sql(sql[r], V_SCHEMA')]
  /\ pc' = [pc EXCEPT ![r] = AfterClean(cleaned'[r])]
  /\ UNCHANGED <<generations, mcpVars, sanVars, sql, conn, connects, rows, ret, out, executed, log>>

\* line 177: q = self.clean_sql(sql)
Clean(r) ==
  /\ pc[r] = "generated"
  /\ cleaned' = [cleaned EXCEPT ![r] = clean_sql(sql[r], V_SCHEMA)]
  /\ pc' = [pc EXCEPT ![r] = AfterClean(cleaned'[r])]
  /\ UNCHANGED <<generations, mcpVars, V_SCHEMA, sanVars, sql, conn, connects, rows, ret, out,
                 executed, log>>

\* lines 196-199: the ValueError of clean_sql is returned as a payload
CleanCaught(r) ==
  /\ pc[r] = "caught"
  /\ ret' = [ret EXCEPT ![r] = ErrorPayload("general", sql[r])]
  /\ pc' = [pc EXCEPT ![r] = "vx_returned"]
  /\ UNCHANGED <<generations, mcpVars, V_SCHEMA, sanVars, sql, cleaned, conn, connects, rows, out,
                 executed, log>>

\* line 180: conn_vision() connects
Connect(r) ==
  /\ pc[r] = "cleaned"
  /\ connects' = [connects EXCEPT ![r] = @ + 1]
  /\ conn' = [conn EXCEPT ![r] = TRUE]
  /\ pc' = [pc EXCEPT ![r] = "connected"]
  /\ UNCHANGED <<generations, mcpVars, V_SCHEMA, sanVars, sql, cleaned, rows, ret, out, executed, log>>

\* line 180 raises oracledb.Error: lines 192-195
ConnectFails(r) ==
  /\ pc[r] = "cleaned"
  /\ connects' = [connects EXCEPT ![r] = @ + 1]
  /\ ret' = [ret EXCEPT ![r] = ErrorPayload("oracle", sql[r])]
  /\ pc' = [pc EXCEPT ![r] = "vx_returned"]
  /\ UNCHANGED <<generations, mcpVars, V_SCHEMA, sanVars, sql, cleaned, conn, rows, out, executed, log>>

\* the raw text handed to the cursor
ExecArg_Raw(r) == sql[r]

\* the argument of cur.execute, line 181
ExecArg(r) == cleaned[r].sql

\* lines 181-185: the statement is executed and its rows are fetched
Execute(r) ==
  /\ pc[r] = "connected"
  /\ executed' = [executed EXCEPT ![r] = Append(@, ExecArg(r))]
  /\ \E n \in RowCounts : rows' = [rows EXCEPT ![r] = n]
  /\ pc' = [pc EXCEPT ![r] = "fetched"]
  /\ UNCHANGED <<generations, mcpVars, V_SCHEMA, sanVars, sql, cleaned, conn, connects, ret, out, log>>

\* a failed execution tried again on the open connection
ExecuteFails_Retry(r) ==
  /\ pc[r] = "connected"
  /\ executed' = [executed EXCEPT ![r] = Append(@, ExecArg(r))]
  /\ UNCHANGED <<generations, mcpVars, V_SCHEMA, sanVars, pc, sql, cleaned, conn, connects,
                 rows, ret, out, log>>

\* line 181 or 183 raises oracledb.Error: the with block closes the
\* connection, lines 192-195 return the payload
ExecuteFails(r) ==
  /\ pc[r] = "connected"
  /\ executed' = [executed EXCEPT ![r] = Append(@, ExecArg(r))]
  /\ conn' = [conn EXCEPT ![r] = FALSE]
  /\ ret' = [ret EXCEPT ![r] = ErrorPayload("oracle", sql[r])]
  /\ pc' = [pc EXCEPT ![r] = "vx_returned"]
  /\ UNCHANGED <<generations, mcpVars, V_SCHEMA, sanVars, sql, cleaned, connects, rows, out, log>>

\* lines 187-190: the log line is appended and the rows are returned
LogAndReturn(r) ==
  /\ pc[r] = "fetched"
  /\ log' = [log EXCEPT ![r] = Append(@, [sql |-> cleaned[r].sql, count |-> rows[r]])]
  /\ conn' = [conn EXCEPT ![r] = FALSE]
  /\ ret' = [ret EXCEPT ![r] = [kind |-> "rows", count |-> rows[r]]]
  /\ pc' = [pc EXCEPT ![r] = "vx_returned"]
  /\ UNCHANGED <<generations, mcpVars, V_SCHEMA, sanVars, sql, cleaned, connects, rows, out, executed>>

\* line 187 or 188 raises OSError: the with block closes the connection,
\* lines 196-199 return the payload
LogFails(r) ==
  /\ pc[r] = "fetched"
  /\ conn' = [conn EXCEPT ![r] = FALSE]
  /\ ret' = [ret EXCEPT ![r] = ErrorPayload("general", sql[r])]
  /\ pc' = [pc EXCEPT ![r] = "vx_returned"]
  /\ UNCHANGED <<generations, mcpVars, V_SCHEMA, sanVars, sql, cleaned, connects, rows, out, executed,
                 log>>

\* lines 207-217: run wraps whatever vision_execute returned
RunReturn(r) ==
  /\ pc[r] = "vx_returned"
  /\ out' = [out EXCEPT ![r] = [kind |-> "dict", status |-> "success", data |-> ret[r]]]
  /\ pc' = [pc EXCEPT ![r] = "returned"]
  /\ UNCHANGED <<generations, mcpVars, V_SCHEMA, sanVars, sql, cleaned, conn, connects, rows, ret,
                 executed, log>>

RunNext ==
  \/ OnStartup
  \/ \E r \in Requests :
       \/ Generate(r) \/ GenerateFails(r) \/ Clean(r)
       \/ CleanCaught(r) \/ Connect(r) \/ ConnectFails(r) \/ Execute(r)
       \/ ExecuteFails(r) \/ LogAndReturn(r) \/ LogFails(r) \/ RunReturn(r)

\* the requests of one process, run to completion in any interleaving
SpecRun == Init /\ [][RunNext]_vars

\* ------------------------------------------------------------------ MCP tools
\* What a tool raises when get_oracle_connection raised DatabaseConnectionError:
\* the clause "except DatabaseConnectionError: raise" passes it on;
\* get_hold_statistics of mcp_invoice_holds.py has only "except Exception"
\* (line 238) and raises DatabaseQueryError.
ConnErrorSurfaces(t) ==
  IF t.file = V1 /\ t.name = "get_hold_statistics"
  THEN "DatabaseQueryError" ELSE "DatabaseConnectionError"

\* What a tool does when converting a fetched row fails: list_holding_invoices
\* of mcp_invoice_holds_v0.1.py skips the row (lines 221-223) and returns the
\* rest; the others raise DatabaseQueryError from "except Exception".
RowErrorSurfaces(t) ==
  IF t.file = V01 /\ t.name = "list_holding_invoices"
  THEN "result" ELSE "DatabaseQueryError"

\* a tool is called
ToolCall(c) ==
  /\ tpc[c] = "idle"
  /\ \E t \in Tools : tool' = [tool EXCEPT ![c] = t]
  /\ tpc' = [tpc EXCEPT ![c] = "called"]
  /\ UNCHANGED <<V_SCHEMA, sanVars, runVars, fault, outcome, open, initialized, inits>>

\* get_oracle_connection enters the client initialisation:
\* mcp_invoice_holds_v0.1.py reads the flag (line 110), mcp_invoice_holds.py
\* initialises on every call (line 86)
InitCheck(c) ==
  /\ tpc[c] = "called"
  /\ tpc' = [tpc EXCEPT ![c] =
       IF tool[c].file = V01 /\ initialized THEN "inited" ELSE "init"]
  /\ UNCHANGED <<V_SCHEMA, sanVars, runVars, tool, fault, outcome, open, initialized, inits>>

\* oracledb.init_oracle_client() is called. In mcp_invoice_holds_v0.1.py the
\* flag is set whether the call succeeds or raises (lines 113-120).
InitClient(c) ==
  /\ tpc[c] = "init"
  /\ IF tool[c].file = V01
     THEN initialized' = TRUE /\ inits' = inits + 1
     ELSE UNCHANGED <<initialized, inits>>
  /\ tpc' = [tpc EXCEPT ![c] = "inited"]
  /\ UNCHANGED <<V_SCHEMA, sanVars, runVars, tool, fault, outcome, open>>

\* mcp_invoice_holds.py: oracledb.init_oracle_client() raises inside the try of
\* get_oracle_connection, lines 97-101 raise DatabaseConnectionError
InitClientFails(c) ==
  /\ tpc[c] = "init" /\ tool[c].file = V1
  /\ fault' = [fault EXCEPT ![c] = "connect"]
  /\ tpc' = [tpc EXCEPT ![c] = "conn_error"]
  /\ UNCHANGED <<V_SCHEMA, sanVars, runVars, tool, outcome, open, initialized, inits>>

\* oracledb.connect returns a connection; mcp_invoice_holds.py returns it at
\* once, mcp_invoice_holds_v0.1.py goes on to the test query
OracleConnect(c) ==
  /\ tpc[c] = "inited"
  /\ open' = [open EXCEPT ![c] = TRUE]
  /\ tpc' = [tpc EXCEPT ![c] = IF tool[c].file = V01 THEN "opened" ELSE "connected"]
  /\ UNCHANGED <<V_SCHEMA, sanVars, runVars, tool, fault, outcome, initialized, inits>>

\* oracledb.connect raises: get_oracle_connection raises DatabaseConnectionError
OracleConnectFails(c) ==
  /\ tpc[c] = "inited"
  /\ fault' = [fault EXCEPT ![c] = "connect"]
  /\ tpc' = [tpc EXCEPT ![c] = "conn_error"]
  /\ UNCHANGED <<V_SCHEMA, sanVars, runVars, tool, outcome, open, initialized, inits>>

\* mcp_invoice_holds_v0.1.py lines 138-144: the test query succeeds
TestQuery(c) ==
  /\ tpc[c] = "opened"
  /\ tpc' = [tpc EXCEPT ![c] = "connected"]
  /\ UNCHANGED <<V_SCHEMA, sanVars, runVars, tool, fault, outcome, open, initialized, inits>>

\* mcp_invoice_holds_v0.1.py lines 138-153: the test query raises;
\* DatabaseConnectionError is raised and the connection is not closed
TestQueryFails(c) ==
  /\ tpc[c] = "opened"
  /\ fault' = [fault EXCEPT ![c] = "connect"]
  /\ tpc' = [tpc EXCEPT ![c] = "conn_error"]
  /\ UNCHANGED <<V_SCHEMA, sanVars, runVars, tool, outcome, open, initialized, inits>>

\* the tool's handlers for the error of get_oracle_connection; its local
\* connection is None, the finally clause closes nothing
ConnErrorHandled(c) ==
  /\ tpc[c] = "conn_error"
  /\ outcome' = [outcome EXCEPT ![c] = ConnErrorSurfaces(tool[c])]
  /\ tpc' = [tpc EXCEPT ![c] = "done"]
  /\ UNCHANGED <<V_SCHEMA, sanVars, runVars, tool, fault, open, initialized, inits>>

\* cursor.execute and cursor.fetchall succeed
Query(c) ==
  /\ tpc[c] = "connected"
  /\ tpc' = [tpc EXCEPT ![c] = "fetched"]
  /\ UNCHANGED <<V_SCHEMA, sanVars, runVars, tool, fault, outcome, open, initialized, inits>>

\* cursor.execute or cursor.fetchall raises oracledb.Error: the tool raises
\* DatabaseQueryError, the finally clause closes the connection
QueryFails(c) ==
  /\ tpc[c] = "connected"
  /\ fault' = [fault EXCEPT ![c] = "query"]
  /\ outcome' = [outcome EXCEPT ![c] = "DatabaseQueryError"]
  /\ open' = [open EXCEPT ![c] = FALSE]
  /\ tpc' = [tpc EXCEPT ![c] = "done"]
  /\ UNCHANGED <<V_SCHEMA, sanVars, runVars, tool, initialized, inits>>

\* the rows are converted and returned, the finally clause closes the connection
Convert(c) ==
  /\ tpc[c] = "fetched"
  /\ outcome' = [outcome EXCEPT ![c] = "result"]
  /\ open' = [open EXCEPT ![c] = FALSE]
  /\ tpc' = [tpc EXCEPT ![c] = "done"]
  /\ UNCHANGED <<V_SCHEMA, sanVars, runVars, tool, fault, initialized, inits>>

\* converting a row raises, the finally clause closes the connection
ConvertFails(c) ==
  /\ tpc[c] = "fetched"
  /\ fault' = [fault EXCEPT ![c] = "rows"]
  /\ outcome' = [outcome EXCEPT ![c] = RowErrorSurfaces(tool[c])]
  /\ open' = [open EXCEPT ![c] = FALSE]
  /\ tpc' = [tpc EXCEPT ![c] = "done"]
  /\ UNCHANGED <<V_SCHEMA, sanVars, runVars, tool, initialized, inits>>

NextMcp ==
  \E c \in Calls :
    \/ ToolCall(c) \/ InitCheck(c) \/ InitClient(c) \/ InitClientFails(c)
    \/ OracleConnect(c) \/ OracleConnectFails(c) \/ TestQuery(c)
    \/ TestQueryFails(c) \/ ConnErrorHandled(c) \/ Query(c) \/ QueryFails(c)
    \/ Convert(c) \/ ConvertFails(c)

\* the tool calls of the MCP servers, in any interleaving
SpecMcp == Init /\ [][NextMcp]_vars

\* ------------------------------------------------------------------ claims
\* t occurs in s as a run of consecutive atoms
Contains(s, t) ==
  \E i \in 0..(Len(s) - Len(t)) : SubSeq(s, i + 1, i + Len(t)) = t

\* s ends with t
EndsWith(s, t) ==
  Len(s) >= Len(t) /\ SubSeq(s, Len(s) - Len(t) + 1, Len(s)) = t

RangeOf(s) == {s[i] : i \in 1..Len(s)}

\* the keywords C1 lists
C1_Keywords ==
  {"INSERT", "UPDATE", "DELETE", "MERGE", "CREATE", "ALTER", "DROP", "GRANT",
   "REVOKE", "TRUNCATE"}

\* s has one of them as a standalone word, in any letter case
C1_Standalone(s) ==
  \E i \in 1..Len(s) :
    /\ ToUpper(s[i]) \in C1_Keywords
    /\ (i = 1 \/ ~IsWord(s[i - 1]))
    /\ (i = Len(s) \/ ~IsWord(s[i + 1]))

\* C1 as stated: every raw statement that has a forbidden keyword as a
\* standalone word anywhere in its text is rejected.
C1_AnyKeywordRejected ==
  (phase = "done" /\ C1_Standalone(raw)) => ~result.ok

\* C1 amended: every raw statement that still has a forbidden keyword as a
\* standalone word after the fence/terminator strip and the schema-qualifier
\* rewrite is rejected with the forbidden-statement error, whatever the target
\* schema, and no statement is returned.
C1_ForbiddenRejected ==
  (phase = "done" /\ C1_Standalone(result.s))
    => (~result.ok /\ result.err = "forbidden" /\ result.sql = <<>>)

\* a mixed-case keyword beside a reference to the allowed table was rejected
C1_Witness ==
  /\ phase = "done" /\ V_SCHEMA = "APPS"
  /\ C1_Standalone(result.s)
  /\ {"Update", "AP_HOLDS_ALL"} \subseteq RangeOf(raw)
  /\ result.err = "forbidden"

\* the last dot-separated segment of obj, quotes stripped, is AP_HOLDS_ALL in
\* some letter case
C2_NamesAllowed(obj) ==
  StripQuotes(SubSeq(obj, LastDot(obj, Len(obj)) + 1, Len(obj)))
    \in {<<"AP_HOLDS_ALL">>, <<"ap_holds_all">>}

\* the FROM/JOIN targets of s that do not name the allowed table
C2_BadTargets(s) ==
  LET ts == FromTargets(s, 1)
  IN {ts[i] : i \in {j \in 1..Len(ts) : ~C2_NamesAllowed(ts[j])}}

\* C2 as stated: a raw statement without forbidden keyword in which some
\* FROM/JOIN target is not the allowed table is rejected as table-not-allowed.
C2_AnyBadTargetRejected ==
  (phase = "done" /\ ~C1_Standalone(raw) /\ C2_BadTargets(raw) # {})
    => (~result.ok /\ result.err = "table")

\* C2 amended: for a raw statement without forbidden keyword, if some FROM/JOIN
\* target of the text left by the fence/terminator strip and schema rewrite is
\* not the allowed table, clean_sql raises table-not-allowed naming such a
\* target and returns nothing; if every target is the allowed table (quoted,
\* qualified, any letter case) the statement is accepted.
C2_TableCheck ==
  (phase = "done" /\ ~C1_Standalone(raw) /\ Strip(raw) # <<>>)
    => LET bad == C2_BadTargets(result.s)
       IN IF bad # {}
          THEN ~result.ok /\ result.err = "table" /\ result.obj \in bad
               /\ result.sql = <<>>
          ELSE result.ok

\* SELECT * FROM OTHER_TABLE was rejected, naming OTHER_TABLE
C2_Witness ==
  /\ phase = "done" /\ ~C1_Standalone(raw)
  /\ <<"OTHER_TABLE">> \in C2_BadTargets(result.s)
  /\ Contains(raw, <<"SELECT", SP, "*", SP, "FROM", SP, "OTHER_TABLE">>)
  /\ result.err = "table"
  /\ result.obj = <<"OTHER_TABLE">>

\* the entries that follow the FROM/JOIN target ending before index k in a
\* comma-separated list
RECURSIVE C3_ListTail(_, _)
C3_ListTail(s, k) ==
  LET c == SkipSpace(s, k)
      j == SkipSpace(s, c + 1)
      e == SkipIdent(s, j)
  IN IF c <= Len(s) /\ s[c] = "," /\ e > j
     THEN <<SubSeq(s, j, e - 1)>> \o C3_ListTail(s, e)
     ELSE <<>>

\* the second and later entries of every FROM/JOIN list of s, from index i on
RECURSIVE C3_LaterEntries(_, _)
C3_LaterEntries(s, i) ==
  IF i > Len(s) THEN <<>>
  ELSE LET j == SkipSpace(s, i + 1)
           k == SkipIdent(s, j)
       IN IF /\ ToUpper(s[i]) \in {"FROM", "JOIN"}
             /\ (i = 1 \/ ~IsWord(s[i - 1]))
             /\ j > i + 1
             /\ k > j
          THEN C3_ListTail(s, k) \o C3_LaterEntries(s, k)
          ELSE C3_LaterEntries(s, i + 1)

\* C3: no returned statement reads from a table other than AP_HOLDS_ALL, also
\* not as the second or later entry of a comma-separated FROM list.
C3_NoOtherRowSource ==
  (phase = "done" /\ result.ok)
    => LET es == C3_LaterEntries(result.sql, 1)
       IN \A i \in 1..Len(es) : C2_NamesAllowed(es[i])

\* the mandatory predicates, ANDed in policy order
C4_Mandatory ==
  <<"WHERE", SP, "RELEASE_LOOKUP_CODE", SP, "IS", SP, "NULL", SP, "AND", SP,
    "HOLD_LOOKUP_CODE", SP, "IN", SP, "(", CODES, ")">>

\* C4: every returned statement has a WHERE clause that holds all mandatory
\* predicates joined by AND in policy order; a WHERE of the model's own is
\* kept behind them, joined by AND.
C4_MandatoryPresent ==
  (phase = "done" /\ result.ok)
    => /\ Contains(result.sql, C4_Mandatory)
       /\ WhereIndex(SplitClauses(result.s).body, 1) > 0
            => Contains(result.sql, C4_Mandatory \o <<SP, "AND">>)

\* a statement with a WHERE of its own was returned with the predicates in it
C4_Witness ==
  /\ phase = "done" /\ result.ok
  /\ Contains(raw, <<"where", SP, "HOLD_ID", "=", "1">>)
  /\ Contains(result.sql, C4_Mandatory \o <<SP, "AND", SP, "HOLD_ID", "=", "1">>)

\* C5: every returned statement satisfies the policy on its own: no forbidden
\* keyword, every FROM/JOIN target is the allowed table, a FETCH FIRST clause
\* ends it.
C5_ReturnedSatisfiesPolicy ==
  (phase = "done" /\ result.ok)
    => /\ ~C1_Standalone(result.sql)
       /\ C2_BadTargets(result.sql) = {}
       /\ TwoWordStart(result.sql, 1, "FETCH", "FIRST") > 0

\* C6: when clean_sql rejects the raw statement of a request (empty input,
\* forbidden keyword, table not allowed), vision_execute opens no connection to
\* the Vision database and executes no statement for that request.
C6_RejectedNoDatabaseContact ==
  \A r \in Requests :
    cleaned[r].err \in {"empty", "forbidden", "table"}
      => /\ connects[r] = 0
         /\ ~conn[r]
         /\ executed[r] = <<>>

\* a request whose statement was rejected has returned without a connection
C6_Witness ==
  \E r \in Requests :
    /\ pc[r] = "returned"
    /\ cleaned[r].err = "forbidden"
    /\ connects[r] = 0
    /\ executed[r] = <<>>

\* C7: every statement vision_execute hands to the Vision cursor is the value
\* clean_sql returned for the raw SQL of that request, never the raw text.
C7_OnlySanitizedExecuted ==
  \A r \in Requests :
    \A i \in 1..Len(executed[r]) :
      LET res == clean_sql(sql[r], V_SCHEMA)
      IN res.ok /\ executed[r][i] = res.sql /\ executed[r][i] # sql[r]

\* a statement with a qualifier and a terminator was executed in its sanitized
\* form, with the mandatory predicates injected
C7_Witness ==
  \E r \in Requests :
    /\ Len(executed[r]) = 1
    /\ Contains(sql[r], <<"WHERE", SP, "HOLD_ID", "=", "1", SEMI>>)
    /\ Contains(executed[r][1], C4_Mandatory)
    /\ ~Contains(executed[r][1], <<SEMI>>)

\* the default limit clause
C8_DefaultLimit == <<"FETCH", SP, "FIRST", SP, "100", SP, "ROWS", SP, "ONLY">>

\* C8: a statement without row-limit clause that passes validation is returned
\* with the default limit clause at its very end, the only limit clause in it,
\* behind the body and behind the ORDER BY clause if one was split off.
C8_DefaultLimitAppended ==
  (phase = "done" /\ result.ok /\ TwoWordStart(raw, 1, "FETCH", "FIRST") = 0)
    => /\ EndsWith(result.sql, <<SP>> \o C8_DefaultLimit)
       /\ TwoWordStart(result.sql, 1, "FETCH", "FIRST")
            = Len(result.sql) - Len(C8_DefaultLimit) + 1
       /\ LET o == TwoWordStart(result.sql, 1, "ORDER", "BY")
          IN TwoWordStart(result.s, 1, "ORDER", "BY") > 0
               => (o > 0 /\ o < Len(result.sql) - Len(C8_DefaultLimit) + 1)

\* a statement with ORDER BY and no limit got the default limit behind the order
C8_Witness ==
  /\ phase = "done" /\ result.ok
  /\ TwoWordStart(raw, 1, "FETCH", "FIRST") = 0
  /\ EndsWith(result.sql,
              <<"ORDER", SP, "BY", SP, "HOLD_ID", SP>> \o C8_DefaultLimit)

\* C9: a statement that has a row-limit clause is returned ending with exactly
\* the text of that clause, from its leading keyword to the end of the
\* statement, also when the clause spans lines; no default limit is added.
C9_LimitPreserved ==
  LET p == result.s
      f == TwoWordStart(p, 1, "FETCH", "FIRST")
  IN (phase = "done" /\ result.ok /\ f > 0)
       => /\ EndsWith(result.sql, Strip(SubSeq(p, f, Len(p))))
          /\ ~Contains(result.sql, C8_DefaultLimit)

\* the raw statement proper: without surrounding blanks, code fence and
\* trailing terminators
C10_Statement(text) == RStripSemi(StripFence(Strip(text)))

\* C10 as stated: a raw statement <head> WHERE <cond> without ORDER BY and
\* limit clause is returned as <head> WHERE <predicates> AND <cond> <default
\* limit>, head and condition unchanged.
C10_RawHeadKept ==
  LET p == C10_Statement(raw)
      w == WhereIndex(p, 1)
  IN (/\ phase = "done" /\ result.ok /\ w > 0
      /\ TwoWordStart(p, 1, "FETCH", "FIRST") = 0
      /\ TwoWordStart(p, 1, "ORDER", "BY") = 0)
       => result.sql
            = Strip(SubSeq(p, 1, w - 1) \o C4_Mandatory \o <<SP, "AND">>
                      \o SubSeq(p, w + 1, Len(p)))
                \o <<SP>> \o C8_DefaultLimit

\* C10 amended: a raw statement <head> WHERE <cond> without ORDER BY and limit
\* clause is returned as <head> WHERE <predicates> AND <cond> <default limit>
\* with only the first WHERE rewritten, where head and condition are the
\* statement's text with its HOL_AGENT_05 qualifiers rewritten to the target
\* schema and are otherwise unchanged.
C10_InjectedAfterFirstWhere ==
  LET p == result.s
      w == WhereIndex(p, 1)
  IN (/\ phase = "done" /\ result.ok /\ w > 0
      /\ TwoWordStart(p, 1, "FETCH", "FIRST") = 0
      /\ TwoWordStart(p, 1, "ORDER", "BY") = 0)
       => result.sql
            = Strip(SubSeq(p, 1, w - 1) \o C4_Mandatory \o <<SP, "AND">>
                      \o SubSeq(p, w + 1, Len(p)))
                \o <<SP>> \o C8_DefaultLimit

\* a statement with two WHEREs: the first rewritten, the second left as it was
C10_Witness ==
  /\ phase = "done" /\ result.ok
  /\ result.sql
       = <<"FROM", SP, "AP_HOLDS_ALL", SP>> \o C4_Mandatory
           \o <<SP, "AND", SP, "HOLD_ID", "=", "1", SP, "where", SP, "HOLD_ID", "=", "1", SP>>
           \o C8_DefaultLimit

\* the statement returned for p is: the text of p ahead of its first ORDER BY
\* or FETCH FIRST keyword, then WHERE and the mandatory predicates, then the
\* order clause if p has one ahead of its limit clause, then a limit clause
C11_Shape(p) ==
  LET o == TwoWordStart(p, 1, "ORDER", "BY")
      f == TwoWordStart(p, 1, "FETCH", "FIRST")
      ordered == o > 0 /\ (f = 0 \/ o < f)
      cut == IF ordered THEN o ELSE IF f > 0 THEN f ELSE Len(p) + 1
      body == IF cut <= Len(p) THEN Strip(SubSeq(p, 1, cut - 1)) ELSE p
      pre == Strip(body \o <<SP>> \o C4_Mandatory)
      rest == SubSeq(result.sql, Len(pre) + 1, Len(result.sql))
      lim == TwoWordStart(rest, 1, "FETCH", "FIRST")
  IN /\ Len(result.sql) > Len(pre)
     /\ SubSeq(result.sql, 1, Len(pre)) = pre
     /\ rest[1] = SP
     /\ IF ordered
        THEN TwoWordStart(rest, 1, "ORDER", "BY") = 2 /\ lim > 2
        ELSE lim = 2

\* C11 as stated: a raw statement without WHERE keyword that passes validation
\* is returned as its body, unchanged, followed by WHERE and the mandatory
\* predicates, then the order clause if any, then the limit clause.
C11_RawBodyKept ==
  (phase = "done" /\ result.ok /\ WhereIndex(C10_Statement(raw), 1) = 0)
    => C11_Shape(C10_Statement(raw))

\* C11 amended: a raw statement without WHERE keyword that passes validation is
\* returned as its body followed by WHERE and the mandatory predicates, then the
\* order clause if any, then the limit clause, where the body is the
\* statement's text ahead of its ORDER BY and limit clauses with its
\* HOL_AGENT_05 qualifiers rewritten to the target schema and is otherwise
\* unchanged.
C11_WhereAppended ==
  (phase = "done" /\ result.ok /\ WhereIndex(result.s, 1) = 0)
    => C11_Shape(result.s)

\* a statement with ORDER BY and no WHERE got the predicates ahead of the order
C11_Witness ==
  /\ phase = "done" /\ result.ok
  /\ raw = <<"SELECT", SP, "*", SP, "FROM", SP, "AP_HOLDS_ALL", SP,
             "ORDER", SP, "BY", SP, "HOLD_ID">>
  /\ result.sql
       = <<"SELECT", SP, "*", SP, "FROM", SP, "AP_HOLDS_ALL", SP>> \o C4_Mandatory
           \o <<SP, "ORDER", SP, "BY", SP, "HOLD_ID", SP>> \o C8_DefaultLimit

\* C12: every validation rejection carries what was rejected: a forbidden-
\* keyword rejection the keyword that matched, a table rejection the offending
\* FROM/JOIN identifier.
C12_RejectionNamesFragment ==
  (phase = "done" /\ ~result.ok)
    => /\ result.err = "forbidden"
            => (Len(result.obj) = 1 /\ ToUpper(result.obj[1]) \in C1_Keywords
                  /\ result.obj[1] \in RangeOf(result.s))
       /\ result.err = "table" => result.obj \in C2_BadTargets(result.s)

\* C13: when the Vision database fails the executed statement, the sql field of
\* the error payload vision_execute returns is the sanitized statement that was
\* sent to the database, not the raw text.
C13_ErrorPayloadSanitized ==
  \A r \in Requests :
    (/\ pc[r] \in {"vx_returned", "returned"}
     /\ ret[r].kind = "error"
     /\ ret[r].error = "oracle"
     /\ executed[r] # <<>>)
      => ret[r].sql = executed[r][Len(executed[r])]

\* C14: vision_execute never propagates an exception: whenever it has returned
\* it has returned rows or an error payload; after a connection fault or an
\* execution fault the payload has the keys error and sql; and whenever run has
\* returned it has returned a dict, whatever generation, sanitization and
\* execution did.
C14_FaultsReturnedAsData ==
  \A r \in Requests :
    /\ (pc[r] \in {"vx_returned", "returned"} /\ cleaned[r] # NoResult)
         => /\ ret[r].kind \in {"rows", "error"}
            /\ (cleaned[r].ok /\ connects[r] = 1 /\ log[r] = <<>>)
                 => (/\ ret[r].kind = "error"
                     /\ DOMAIN ret[r] = {"kind", "error", "sql"})
    /\ pc[r] = "returned"
         => (out[r].kind = "dict" /\ out[r].status \in {"success", "error"})

\* one request has returned after a connection fault, another after an
\* execution fault
C14_Witness ==
  \E r1, r2 \in Requests :
    /\ pc[r1] = "returned" /\ pc[r2] = "returned"
    /\ connects[r1] = 1 /\ executed[r1] = <<>> /\ ret[r1].kind = "error"
    /\ ret[r1].error = "oracle"
    /\ executed[r2] # <<>> /\ ret[r2].kind = "error" /\ ret[r2].error = "oracle"
    /\ out[r1].kind = "dict" /\ out[r2].kind = "dict"

\* C15: when the sanitized statement executed successfully, vision_execute
\* returns the fetched rows also if appending to the audit log fails: a
\* log-write failure never turns the request into an error result.
C15_LogFailureKeepsRows ==
  \A r \in Requests :
    (/\ pc[r] \in {"vx_returned", "returned"}
     /\ executed[r] # <<>>
     /\ ~(ret[r].kind = "error" /\ ret[r].error = "oracle"))
      => (ret[r].kind = "rows" /\ ret[r].count = rows[r])

\* C16: every execution attempt of a sanitized statement, also one in which the
\* database raises an error, appends exactly one line with the final SQL and
\* the row count to the audit log (unless the log write itself failed).
C16_EveryAttemptLogged ==
  \A r \in Requests :
    (/\ pc[r] \in {"vx_returned", "returned"}
     /\ executed[r] # <<>>
     /\ ~(ret[r].kind = "error" /\ ret[r].error = "general"))
      => (/\ Len(log[r]) = Len(executed[r])
          /\ log[r][1] = [sql |-> executed[r][1], count |-> rows[r]])

\* C17: the schema-qualifier rewrite applied to a text it has already rewritten
\* changes nothing, for every target schema, HOL_AGENT_05 included: rewriting
\* twice gives the same text as rewriting once.
C17_RewriteIdempotent ==
  (phase = "done" /\ V_SCHEMA # NoSchema /\ result.err # "empty")
    => RewriteSchema(result.s, V_SCHEMA) = result.s

\* C18: no step of a request (clean_sql, vision_execute, run) writes the
\* policy: V_SCHEMA changes only in on_startup, before any request, and the
\* other policy fields never; and two requests with the same raw statement got
\* the same outcome from clean_sql.
C18_PolicyUnchanged ==
  /\ [][V_SCHEMA' # V_SCHEMA
          => (V_SCHEMA = NoSchema /\ pc' = pc /\ \A r \in Requests : pc[r] = "idle")]_vars
  /\ [](\A r1, r2 \in Requests :
          (cleaned[r1] # NoResult /\ cleaned[r2] # NoResult /\ sql[r1] = sql[r2])
            => cleaned[r1] = cleaned[r2])
  /\ [](\A r \in Requests :
          cleaned[r] # NoResult => cleaned[r] = clean_sql(sql[r], V_SCHEMA))

\* two requests with the same raw statement have returned, the schema set
C18_Witness ==
  /\ V_SCHEMA = "APPS"
  /\ \A r \in Requests : pc[r] = "returned" /\ cleaned[r].ok
  /\ sql[1] = sql[2]
  /\ cleaned[1] = cleaned[2]

\* C19: in list_holding_invoices and get_hold_statistics a failure to obtain a
\* connection surfaces as DatabaseConnectionError, a failure while executing
\* the query or reading its rows as DatabaseQueryError, and nothing else
\* escapes.
C19_ErrorsByKind ==
  \A c \in Calls :
    tpc[c] = "done"
      => /\ outcome[c] \in {"result", "DatabaseConnectionError", "DatabaseQueryError"}
         /\ fault[c] = "connect" => outcome[c] = "DatabaseConnectionError"
         /\ fault[c] = "query" => outcome[c] = "DatabaseQueryError"

\* C20 as stated: blank input is rejected as empty, and a raw statement that
\* has a forbidden keyword and names a disallowed FROM/JOIN table is rejected
\* with the forbidden-statement error, never with the table error.
C20_RawKeywordBeforeTable ==
  phase = "done"
    => /\ Strip(raw) = <<>> => (~result.ok /\ result.err = "empty")
       /\ (C1_Standalone(raw) /\ C2_BadTargets(raw) # {})
            => (~result.ok /\ result.err = "forbidden")

\* C20 amended: blank input, and only blank input, is rejected as empty; a
\* statement that, after the fence/terminator strip and the schema rewrite,
\* has a forbidden keyword and names a disallowed FROM/JOIN table is rejected
\* with the forbidden-statement error, never with the table error.
C20_StagesInOrder ==
  phase = "done"
    => /\ Strip(raw) = <<>> <=> (~result.ok /\ result.err = "empty")
       /\ (Strip(raw) # <<>> /\ C1_Standalone(result.s)
             /\ C2_BadTargets(result.s) # {})
            => (~result.ok /\ result.err = "forbidden")

\* a statement with a keyword and a disallowed table was rejected for the keyword
C20_Witness ==
  /\ phase = "done"
  /\ raw = <<"Update", SP, "FROM", SP, "OTHER_TABLE">>
  /\ C2_BadTargets(result.s) # {}
  /\ ~result.ok /\ result.err = "forbidden"

\* p has an ORDER BY ahead of its limit clause with nothing but blanks up to the
\* limit clause or the end of the text
C21_BareOrder(p) ==
  LET o == TwoWordStart(p, 1, "ORDER", "BY")
      f == TwoWordStart(p, 1, "FETCH", "FIRST")
      k == SkipSpace(p, SkipSpace(p, o + 1) + 1)
  IN o > 0 /\ (f = 0 \/ o < f) /\ (k > Len(p) \/ k = f)

\* C21: a statement with a bare ORDER BY that passes validation is returned,
\* with the default order clause in place of the bare one, ahead of the limit
\* clause.
C21_BareOrderReplaced ==
  (phase = "done" /\ result.err \notin {"forbidden", "table"}
     /\ C21_BareOrder(result.s))
    => /\ result.ok
       /\ LET i == TwoWordStart(result.sql, 1, "ORDER", "BY")
          IN /\ i > 1
             /\ SubSeq(result.sql, i, i + Len(DefaultOrder) - 1) = DefaultOrder
             /\ TwoWordStart(result.sql, 1, "FETCH", "FIRST")
                  = i + Len(DefaultOrder) + 1

\* SELECT * FROM AP_HOLDS_ALL ORDER BY was returned with the default order
C21_Witness ==
  /\ phase = "done" /\ result.ok
  /\ raw = <<"SELECT", SP, "*", SP, "FROM", SP, "AP_HOLDS_ALL", SP, "ORDER", SP, "BY">>
  /\ result.sql
       = <<"SELECT", SP, "*", SP, "FROM", SP, "AP_HOLDS_ALL", SP>> \o C4_Mandatory
           \o <<SP>> \o DefaultOrder \o <<SP>> \o C8_DefaultLimit

\* C22: a statement without any ORDER BY clause that passes validation is
\* returned with the default order clause between its body and its limit
\* clause.
C22_DefaultOrderAdded ==
  (phase = "done" /\ result.ok /\ TwoWordStart(result.s, 1, "ORDER", "BY") = 0)
    => \E i \in 1..(Len(result.sql) - Len(DefaultOrder) + 1) :
         /\ SubSeq(result.sql, i, i + Len(DefaultOrder) - 1) = DefaultOrder
         /\ i < TwoWordStart(result.sql, i, "FETCH", "FIRST")

\* C23: a statement whose row-limit clause is malformed (FETCH FIRST without
\* ROWS ONLY) and that passes validation is returned with the default limit
\* clause at its end instead of the malformed clause.
C23_MalformedLimitReplaced ==
  (phase = "done" /\ result.ok
     /\ TwoWordStart(result.s, 1, "FETCH", "FIRST") > 0
     /\ "ROWS" \notin RangeOf(result.s))
    => /\ EndsWith(result.sql, <<SP>> \o C8_DefaultLimit)
       /\ TwoWordStart(result.sql, 1, "FETCH", "FIRST")
            = Len(result.sql) - Len(C8_DefaultLimit) + 1

\* the atoms of s that are not white space
C24_Text(s) == SelectSeq(s, LAMBDA a : ~IsSpace(a))

\* C24: the clause split loses no text: body, order clause and limit clause of a
\* statement that passes validation together hold all of its text, in this
\* order, and if it has neither clause both are empty and the body is the
\* statement.
C24_SplitLosesNothing ==
  (phase = "done" /\ result.ok)
    => LET p == result.s
           parts == SplitClauses(p)
       IN /\ C24_Text(parts.body) \o C24_Text(parts.order) \o C24_Text(parts.fetch)
               = C24_Text(p)
          /\ (TwoWordStart(p, 1, "FETCH", "FIRST") = 0
                /\ TwoWordStart(p, 1, "ORDER", "BY") = 0)
               => (parts.order = <<>> /\ parts.fetch = <<>> /\ parts.body = p)

\* s has a HOL_AGENT_05 qualifier at index i: the schema name in any letter
\* case, an optional closing quote, a dot
C25_Qualifier(s, i) ==
  /\ ToUpper(s[i]) = SourceSchema
  /\ \/ (i + 1 <= Len(s) /\ s[i + 1] = DOT)
     \/ (i + 2 <= Len(s) /\ s[i + 1] = QUOTE /\ s[i + 2] = DOT)

\* the text of s outside its qualifiers: without quotes, dots and schema names
C25_Rest(s) ==
  SelectSeq(s, LAMBDA a : a \notin {QUOTE, DOT, V_SCHEMA} /\ ToUpper(a) # SourceSchema)

C25_Dots(s) == Len(SelectSeq(s, LAMBDA a : a = DOT))

\* C25: with the target schema set, every HOL_AGENT_05 qualifier of the
\* statement, quoted or not, in any letter case, has become <V_SCHEMA>. in the
\* text clean_sql works on, and nothing else of the text has changed; with the
\* target schema unset the text is not changed at all, and the statement is
\* still sanitized.
C25_QualifiersRewritten ==
  (phase = "done" /\ result.err # "empty")
    => LET p == C10_Statement(raw)
           s == result.s
       IN IF V_SCHEMA # NoSchema
          THEN /\ \A i \in 1..Len(s) :
                    C25_Qualifier(s, i) => (s[i] = V_SCHEMA /\ s[i + 1] = DOT)
               /\ C25_Rest(s) = C25_Rest(p)
               /\ C25_Dots(s) = C25_Dots(p)
          ELSE /\ s = p
               /\ result.err = "" => (result.ok /\ Contains(result.sql, C4_Mandatory))

\* SELECT * FROM HOL_AGENT_05.AP_HOLDS_ALL with target schema APPS was returned
\* reading from APPS.AP_HOLDS_ALL
C25_Witness ==
  /\ phase = "done" /\ result.ok /\ V_SCHEMA = "APPS"
  /\ raw = <<"SELECT", SP, "*", SP, "FROM", SP, "HOL_AGENT_05", DOT, "AP_HOLDS_ALL">>
  /\ Contains(result.sql, <<"FROM", SP, "APPS", DOT, "AP_HOLDS_ALL", SP, "WHERE">>)


\* the request has failed: clean_sql raised, or vision_execute returned an
\* error payload
C26_Failed(r) ==
  \/ pc[r] \in {"caught", "vx_returned", "returned"} /\ cleaned[r] # NoResult /\ ~cleaned[r].ok
  \/ ret[r].kind = "error"

\* C26: a call of run asks the generator at most once and executes at most
\* one statement on the Vision database; once validation or execution has
\* failed, the call can only return: no generation, sanitizing, connection or
\* execution step is possible any more.
C26_OnceAndFinal ==
  \A r \in Requests :
    /\ generations[r] <= 1
    /\ Len(executed[r]) <= 1
    /\ connects[r] <= 1
    /\ C26_Failed(r)
         => /\ pc[r] \in {"caught", "vx_returned", "returned"}
            /\ ~ENABLED (Generate(r) \/ GenerateFails(r) \/ Clean(r) \/ Connect(r)
                           \/ ConnectFails(r) \/ Execute(r) \/ ExecuteFails(r))

\* a request whose execution failed has returned, after one generation and
\* one execution
C26_Witness ==
  \E r \in Requests :
    /\ pc[r] = "returned" /\ out[r].kind = "dict" /\ out[r].status = "success"
    /\ out[r].data.kind = "error" /\ out[r].data.error = "oracle"
    /\ generations[r] = 1 /\ Len(executed[r]) = 1


\* C27: oracledb.init_oracle_client() is called at most once in the process,
\* however many tool calls go through get_oracle_connection and however they
\* interleave, and once it has been called the flag is set.
C27_InitOnce ==
  /\ inits <= 1
  /\ inits >= 1 => initialized


\* C28: an order clause with a column reference set off by blanks on the line
\* of its keywords, in whatever letter case the keywords are written, is still
\* in the returned statement as it was written.
C28_OrderKept ==
  (phase = "done" /\ result.ok)
    => LET s == result.s
           o == TwoWordStart(s, 1, "ORDER", "BY")
           f == TwoWordStart(s, 1, "FETCH", "FIRST")
           k == SkipSpace(s, SkipSpace(s, o + 1) + 1)
       IN (/\ o > 0 /\ (f = 0 \/ o < f)
           /\ k > SkipSpace(s, o + 1) + 1
           /\ k <= Len(s) /\ k # f /\ IsIdent(s[k])
           /\ NL \notin RangeOf(SubSeq(s, o, k)))
            => Contains(result.sql, SubSeq(s, o, k))


\* C29: when a tool call has returned or raised, the connection that
\* oracledb.connect opened for it is closed, whatever failed on the way.
C29_ConnectionsClosed ==
  \A c \in Calls : tpc[c] = "done" => ~open[c]


\* the sanitized statement of request r was executed and its rows were fetched
C30_Fetched(r) ==
  /\ cleaned[r].ok
  /\ executed[r] = <<cleaned[r].sql>>
  /\ ~(ret[r].kind = "error" /\ ret[r].error = "oracle")

\* C30: run returns status "success" only for a request whose sanitized
\* statement was executed and whose rows were fetched; a request that was
\* rejected by clean_sql, or whose connection or execution failed, is
\* returned with status "error".
C30_StatusTellsFailure ==
  \A r \in Requests :
    (pc[r] = "returned" /\ out[r].kind = "dict")
      => (out[r].status = "success" => C30_Fetched(r))

====
